---- MODULE Spec2Model ----
(***************************************************************************)
(* Model of app.py: the restricted arithmetic evaluator (safe_eval and the *)
(* SafeEval node visitor) and the calculator shell around it (expression   *)
(* text, history, append / backspace / clear / evaluate).                  *)
(*                                                                         *)
(* Text is a sequence of characters, each character a one-character        *)
(* string.  The four non-ASCII glyphs the normalizer rewrites are written  *)
(* "MULSIGN" (U+00D7), "DIVSIGN" (U+00F7), "ENDASH" (U+2013) and "EMDASH"  *)
(* (U+2014).  The message of an exception is one opaque element.           *)
(*                                                                         *)
(* Numbers are exact rationals num/den (den > 0, lowest terms) tagged int  *)
(* or float; the inputs are bounded so that every float the evaluator      *)
(* meets is a rational that double arithmetic represents to well within    *)
(* the 12 digits safe_eval keeps.                                          *)
(*                                                                         *)
(* Outside the model, and marked as such where the text could reach them   *)
(* (exception "Unmodelled", value UnmodelledV, result kind "unmodelled"):  *)
(* characters other than digits, the letters of Letters, the operator      *)
(* characters, the blank and the five rewritten characters; exponent, hex  *)
(* and octal literals; the keywords in, not, or; powers with a             *)
(* non-integral exponent.  inf, nan and negative zero do not arise from    *)
(* the inputs of the model.  DomainOK says that no state holds an          *)
(* unmodelled outcome.                                                     *)
(*                                                                         *)
(* st.session_state is a plain store: an assignment to it takes effect.    *)
(***************************************************************************)
EXTENDS Integers, Sequences, FiniteSets, TLC

VARIABLES
  expr,     \* st.session_state.expr, the expression text
  history,  \* st.session_state.history, most recent first
  op,       \* the operation that produced this state
  pc,       \* where the safe_eval call in progress stands
  call,     \* the safe_eval call in progress, or the last one made
  sample,   \* the input a safe_eval run was started on
  edits,    \* edits of the expression made so far
  evals     \* evaluate() calls made so far

vars == <<expr, history, op, pc, call, sample, edits, evals>>

----------------------------------------------------------------------------
(* Characters *)

Digits == {"0", "1", "2", "3", "4", "5", "6", "7", "8", "9"}

Letters == {"a", "N", "o", "n", "e", "x", "p", "r", "i", "t"}

DigitVal(c) ==
  CASE c = "0" -> 0 [] c = "1" -> 1 [] c = "2" -> 2 [] c = "3" -> 3
    [] c = "4" -> 4 [] c = "5" -> 5 [] c = "6" -> 6 [] c = "7" -> 7
    [] c = "8" -> 8 [] c = "9" -> 9

DigitChar(d) ==
  CASE d = 0 -> "0" [] d = 1 -> "1" [] d = 2 -> "2" [] d = 3 -> "3"
    [] d = 4 -> "4" [] d = 5 -> "5" [] d = 6 -> "6" [] d = 7 -> "7"
    [] d = 8 -> "8" [] d = 9 -> "9"

----------------------------------------------------------------------------
(* Numbers: exact rationals tagged with the Python type *)

Abs(n) == IF n < 0 THEN -n ELSE n

RECURSIVE GCD(_, _)
GCD(a, b) == IF b = 0 THEN a ELSE GCD(b, a % b)

\* n / d rounded toward zero, as C's integer division rounds; FloorQ with
\* this body is the variant C7 is checked against
FloorQ_truncating(n, d) ==
  (Abs(n) \div Abs(d)) * (IF (n < 0) = (d < 0) THEN 1 ELSE -1)

\* floor(n / d) for any nonzero d
FloorQ(n, d) == IF d > 0 THEN n \div d ELSE (-n) \div (-d)

Rat(t, n, d) ==
  LET s == IF d < 0 THEN -1 ELSE 1
      g == GCD(Abs(n), Abs(d))
  IN  [t |-> t, num |-> (s * n) \div g, den |-> (s * d) \div g]

IntV(n) == [t |-> "int", num |-> n, den |-> 1]

FloatV(n, d) == Rat("float", n, d)

NoneV == [t |-> "none", num |-> 0, den |-> 1]

UnmodelledV == [t |-> "unmodelled", num |-> 0, den |-> 1]

IsNum(v) == v.t \in {"int", "float"}

RECURSIVE IPow(_, _)
IPow(b, e) == IF e = 0 THEN 1 ELSE b * IPow(b, e - 1)

----------------------------------------------------------------------------
(* safe_eval, normalization: five str.replace passes, in this order *)

\* str.replace(old, new) for a one-character old, by halves
RECURSIVE Replace(_, _, _)
Replace(s, old, new) ==
  IF Len(s) = 0 THEN <<>>
  ELSE IF Len(s) = 1 THEN (IF s[1] = old THEN new ELSE s)
  ELSE LET m == Len(s) \div 2
       IN  Replace(SubSeq(s, 1, m), old, new) \o Replace(SubSeq(s, m + 1, Len(s)), old, new)

\* the passes without the em-dash one; Normalize with this body is the
\* variant C8 is checked against
Normalize_without_em_dash(s) ==
  Replace(Replace(Replace(Replace(s,
    "MULSIGN", <<"*">>), "DIVSIGN", <<"/">>), "ENDASH", <<"-">>), "^", <<"*", "*">>)

Normalize(s) ==
  Replace(Replace(Replace(Replace(Replace(s,
    "MULSIGN", <<"*">>), "DIVSIGN", <<"/">>), "ENDASH", <<"-">>),
    "EMDASH", <<"-">>), "^", <<"*", "*">>)

----------------------------------------------------------------------------
(* ast.parse(normalized, mode="eval"), tokenizer.  A token is a number, a  *)
(* name or an operator; the result is the token list or a syntax error.    *)

OneCharOps == {"+", "-", "*", "/", "%", "(", ")", "<", "~", "."}

NumTok(v) == [ty |-> "NUM", s |-> "", id |-> <<>>, val |-> v]

NameTok(id) == [ty |-> "NAME", s |-> "", id |-> id, val |-> NoneV]

OpTok(s) == [ty |-> "OP", s |-> s, id |-> <<>>, val |-> NoneV]

\* first index at or after i whose character is outside cls
RECURSIVE RunEnd(_, _, _)
RunEnd(s, i, cls) ==
  IF i > Len(s) \/ s[i] \notin cls THEN i ELSE RunEnd(s, i + 1, cls)

RECURSIVE DigitsVal(_)
DigitsVal(ds) ==
  IF ds = <<>> THEN 0
  ELSE 10 * DigitsVal(SubSeq(ds, 1, Len(ds) - 1)) + DigitVal(ds[Len(ds)])

\* the keywords the letters of the model spell, besides None; the model has
\* no grammar for them
Keywords == {<<"i", "n">>, <<"n", "o", "t">>, <<"o", "r">>}

IsPrefixAt(s, i, w) == i + Len(w) - 1 <= Len(s) /\ SubSeq(s, i, i + Len(w) - 1) = w

\* a decimal integer or point-float literal starting at i; a literal that
\* goes on with an exponent, a hex or octal prefix or a keyword is outside
\* the model
ScanNumber(s, i) ==
  LET j1     == RunEnd(s, i, Digits)
      hasDot == j1 <= Len(s) /\ s[j1] = "."
      j2     == IF hasDot THEN RunEnd(s, j1 + 1, Digits) ELSE j1
      ip     == SubSeq(s, i, j1 - 1)
      fp     == SubSeq(s, j1 + 1, j2 - 1)
      glued  == j2 <= Len(s) /\ s[j2] \in Letters
      other  == j2 <= Len(s)
                  /\ \/ s[j2] = "e"
                     \/ s[j2] \in {"o", "x"} /\ ip = <<"0">> /\ ~hasDot
                     \/ \E w \in Keywords : IsPrefixAt(s, j2, w)
      lead0  == ~hasDot /\ Len(ip) > 1 /\ ip[1] = "0"
                  /\ \E k \in 1..Len(ip) : ip[k] # "0"
      scale  == IPow(10, Len(fp))
  IN  IF other THEN [ok |-> FALSE, exc |-> "Unmodelled", next |-> j2, val |-> NoneV]
      ELSE IF glued \/ lead0
        THEN [ok |-> FALSE, exc |-> "SyntaxError", next |-> j2, val |-> NoneV]
      ELSE IF hasDot
        THEN [ok |-> TRUE, exc |-> "", next |-> j2,
              val |-> FloatV(DigitsVal(ip) * scale + DigitsVal(fp), scale)]
        ELSE [ok |-> TRUE, exc |-> "", next |-> j2, val |-> IntV(DigitsVal(ip))]

LexOK(toks) == [ok |-> TRUE, toks |-> toks, exc |-> ""]

LexErr(exc) == [ok |-> FALSE, toks |-> <<>>, exc |-> exc]

RECURSIVE LexFrom(_, _, _)
LexFrom(s, i, acc) ==
  IF i > Len(s) THEN LexOK(acc)
  ELSE LET c == s[i]
           d == IF i < Len(s) THEN s[i + 1] ELSE ""
       IN  IF c = " " THEN
             IF i = 1 THEN LexErr("IndentationError")
             ELSE LexFrom(s, i + 1, acc)
           ELSE IF c \in Digits \/ (c = "." /\ d \in Digits) THEN
             LET n == ScanNumber(s, i)
             IN  IF n.ok THEN LexFrom(s, n.next, Append(acc, NumTok(n.val)))
                 ELSE LexErr(n.exc)
           ELSE IF c \in Letters THEN
             LET j == RunEnd(s, i, Letters \cup Digits)
             IN  IF SubSeq(s, i, j - 1) \in Keywords THEN LexErr("Unmodelled")
                 ELSE LexFrom(s, j, Append(acc, NameTok(SubSeq(s, i, j - 1))))
           ELSE IF (c = "*" /\ d = "*") \/ (c = "/" /\ d = "/")
                   \/ (c = "<" /\ d = "<") THEN
             LexFrom(s, i + 2, Append(acc, OpTok(IF c = "*" THEN "**"
                                       ELSE IF c = "/" THEN "//" ELSE "<<")))
           ELSE IF c \in OneCharOps THEN
             LexFrom(s, i + 1, Append(acc, OpTok(c)))
           ELSE LexErr("Unmodelled")

\* Characters of one class stick together: a token never spans two segments.
CharClass(c) ==
  IF c \in Digits \cup Letters \cup {"."} THEN "word"
  ELSE IF c \in {"*", "/", "<", " "} THEN c
  ELSE "single"

SegStart(s, i) ==
  i = 1 \/ CharClass(s[i]) = "single" \/ CharClass(s[i]) # CharClass(s[i - 1])

\* the tokens of s[lo..hi], which starts and ends at segment boundaries:
\* one segment is scanned left to right, several are split near the middle
RECURSIVE LexRange(_, _, _)
LexRange(s, lo, hi) ==
  LET bs  == {b \in (lo + 1)..hi : SegStart(s, b)}
      mid == (lo + hi + 1) \div 2
      m   == CHOOSE b \in bs : \A c \in bs : Abs(c - mid) >= Abs(b - mid)
      l   == LexRange(s, lo, m - 1)
      r   == LexRange(s, m, hi)
  IN  IF lo > hi THEN LexOK(<<>>)
      ELSE IF bs = {} THEN
        (IF s[lo] # " " THEN LexFrom(SubSeq(s, lo, hi), 1, <<>>)
         ELSE IF lo = 1 THEN LexErr("IndentationError")
         ELSE LexOK(<<>>))
      ELSE IF ~l.ok THEN l
      ELSE IF ~r.ok THEN r
      ELSE LexOK(l.toks \o r.toks)

Lex(s) == LexRange(s, 1, Len(s))

----------------------------------------------------------------------------
(* ast.parse, the expression tree.  Node kinds are the ast classes the     *)
(* modelled characters can produce.  Lt and Load are the operator and      *)
(* context nodes that ast.iter_child_nodes yields for Compare, Tuple and   *)
(* Attribute.                                                              *)

ConstantN(v) == [k |-> "Constant", value |-> v]

NameN(id) == [k |-> "Name", id |-> id]

UnaryOpN(o, operand) == [k |-> "UnaryOp", op |-> o, operand |-> operand]

BinOpN(o, left, right) == [k |-> "BinOp", op |-> o, left |-> left, right |-> right]

CallN(func, args) == [k |-> "Call", func |-> func, args |-> args]

CompareN(left, ops, comparators) ==
  [k |-> "Compare", left |-> left, ops |-> ops, comparators |-> comparators]

TupleN == [k |-> "Tuple", elts |-> <<>>, ctx |-> [k |-> "Load"]]

AttributeN(value) == [k |-> "Attribute", value |-> value, ctx |-> [k |-> "Load"]]

BinOpName(s) ==
  CASE s = "+" -> "Add" [] s = "-" -> "Sub" [] s = "*" -> "Mult"
    [] s = "/" -> "Div" [] s = "//" -> "FloorDiv" [] s = "%" -> "Mod"
    [] s = "**" -> "Pow" [] s = "<<" -> "LShift"

UnaryOpName(s) ==
  CASE s = "+" -> "UAdd" [] s = "-" -> "USub" [] s = "~" -> "Invert"

NoneKeyword == <<"N", "o", "n", "e">>

----------------------------------------------------------------------------
(* ast.parse, the grammar (Python's expression grammar restricted to the   *)
(* modelled tokens):                                                       *)
(*   comparison: shift ('<' shift)*        shift: sum ('<<' sum)*          *)
(*   sum: term (('+'|'-') term)*           term: factor (('*'|'/'|'//'|'%') factor)* *)
(*   factor: ('+'|'-'|'~') factor | power  power: primary ['**' factor]    *)
(*   primary: atom ('(' [comparison] ')' | '.' NAME)*                      *)
(*   atom: NUMBER | NAME | 'None' | '(' ')' | '(' comparison ')'           *)

POk(node, next) == [ok |-> TRUE, node |-> node, next |-> next]

PFail == [ok |-> FALSE, node |-> TupleN, next |-> 0]

IsOp(t, i, s) == i <= Len(t) /\ t[i].ty = "OP" /\ t[i].s = s

IsOpIn(t, i, S) == i <= Len(t) /\ t[i].ty = "OP" /\ t[i].s \in S

\* Each rule hands the result of its sub-rule to a continuation (...From,
\* ...Next, ...End) that checks it and goes on.

RECURSIVE PComparison(_, _), PCompareFrom(_, _), PCompareRest(_, _, _, _, _),
          PCompareNext(_, _, _, _, _), PShift(_, _), PShiftFrom(_, _),
          PShiftRest(_, _, _), PShiftNext(_, _, _), PSum(_, _), PSumFrom(_, _),
          PSumRest(_, _, _), PSumNext(_, _, _, _), PTerm(_, _), PTermFrom(_, _),
          PTermRest(_, _, _), PTermNext(_, _, _, _), PFactor(_, _),
          PPower(_, _), PPowerFrom(_, _), PPrimary(_, _), PPrimaryFrom(_, _),
          PPrimaryRest(_, _, _), PCallEnd(_, _, _), PAtom(_, _)

\* '(' comparison ')'
PGroupEnd(t, e) ==
  IF e.ok /\ IsOp(t, e.next, ")") THEN POk(e.node, e.next + 1) ELSE PFail

PAtom(t, i) ==
  IF i > Len(t) THEN PFail
  ELSE IF t[i].ty = "NUM" THEN POk(ConstantN(t[i].val), i + 1)
  ELSE IF t[i].ty = "NAME" THEN
    POk(IF t[i].id = NoneKeyword THEN ConstantN(NoneV) ELSE NameN(t[i].id), i + 1)
  ELSE IF t[i].s = "(" THEN
    IF IsOp(t, i + 1, ")") THEN POk(TupleN, i + 2)
    ELSE PGroupEnd(t, PComparison(t, i + 1))
  ELSE PFail

\* primary '(' comparison ')'
PCallEnd(t, left, e) ==
  IF e.ok /\ IsOp(t, e.next, ")")
    THEN PPrimaryRest(t, e.next + 1, CallN(left, <<e.node>>))
    ELSE PFail

PPrimaryRest(t, i, left) ==
  IF IsOp(t, i, "(") THEN
    IF IsOp(t, i + 1, ")") THEN PPrimaryRest(t, i + 2, CallN(left, <<>>))
    ELSE PCallEnd(t, left, PComparison(t, i + 1))
  ELSE IF IsOp(t, i, ".") THEN
    IF i + 1 <= Len(t) /\ t[i + 1].ty = "NAME" /\ t[i + 1].id # NoneKeyword
      THEN PPrimaryRest(t, i + 2, AttributeN(left))
      ELSE PFail
  ELSE POk(left, i)

PPrimaryFrom(t, a) == IF a.ok THEN PPrimaryRest(t, a.next, a.node) ELSE PFail

PPrimary(t, i) == PPrimaryFrom(t, PAtom(t, i))

\* primary '**' factor
PPowerEnd(p, f) ==
  IF f.ok THEN POk(BinOpN("Pow", p.node, f.node), f.next) ELSE PFail

PPowerFrom(t, p) ==
  IF p.ok /\ IsOp(t, p.next, "**") THEN PPowerEnd(p, PFactor(t, p.next + 1)) ELSE p

PPower(t, i) == PPowerFrom(t, PPrimary(t, i))

\* ('+' | '-' | '~') factor
PUnaryEnd(s, f) ==
  IF f.ok THEN POk(UnaryOpN(UnaryOpName(s), f.node), f.next) ELSE PFail

PFactor(t, i) ==
  IF IsOpIn(t, i, {"+", "-", "~"}) THEN PUnaryEnd(t[i].s, PFactor(t, i + 1))
  ELSE PPower(t, i)

PTermNext(t, s, left, f) ==
  IF f.ok THEN PTermRest(t, f.next, BinOpN(BinOpName(s), left, f.node)) ELSE PFail

PTermRest(t, i, left) ==
  IF IsOpIn(t, i, {"*", "/", "//", "%"})
    THEN PTermNext(t, t[i].s, left, PFactor(t, i + 1))
    ELSE POk(left, i)

PTermFrom(t, f) == IF f.ok THEN PTermRest(t, f.next, f.node) ELSE PFail

PTerm(t, i) == PTermFrom(t, PFactor(t, i))

PSumNext(t, s, left, m) ==
  IF m.ok THEN PSumRest(t, m.next, BinOpN(BinOpName(s), left, m.node)) ELSE PFail

PSumRest(t, i, left) ==
  IF IsOpIn(t, i, {"+", "-"}) THEN PSumNext(t, t[i].s, left, PTerm(t, i + 1))
  ELSE POk(left, i)

PSumFrom(t, m) == IF m.ok THEN PSumRest(t, m.next, m.node) ELSE PFail

PSum(t, i) == PSumFrom(t, PTerm(t, i))

PShiftNext(t, left, m) ==
  IF m.ok THEN PShiftRest(t, m.next, BinOpN("LShift", left, m.node)) ELSE PFail

PShiftRest(t, i, left) ==
  IF IsOp(t, i, "<<") THEN PShiftNext(t, left, PSum(t, i + 1)) ELSE POk(left, i)

PShiftFrom(t, m) == IF m.ok THEN PShiftRest(t, m.next, m.node) ELSE PFail

PShift(t, i) == PShiftFrom(t, PSum(t, i))

PCompareNext(t, left, ops, comparators, m) ==
  IF m.ok THEN PCompareRest(t, m.next, left, Append(ops, [k |-> "Lt"]),
                            Append(comparators, m.node))
  ELSE PFail

PCompareRest(t, i, left, ops, comparators) ==
  IF IsOp(t, i, "<") THEN PCompareNext(t, left, ops, comparators, PShift(t, i + 1))
  ELSE IF ops = <<>> THEN POk(left, i)
  ELSE POk(CompareN(left, ops, comparators), i)

PCompareFrom(t, m) ==
  IF m.ok THEN PCompareRest(t, m.next, m.node, <<>>, <<>>) ELSE PFail

PComparison(t, i) == PCompareFrom(t, PShift(t, i))

ParseOK(tree) == [ok |-> TRUE, exc |-> "", tree |-> tree]

ParseErr(exc) == [ok |-> FALSE, exc |-> exc, tree |-> TupleN]

\* the whole token list must be one expression
ParseTokens(toks, r) ==
  IF r.ok /\ r.next = Len(toks) + 1 THEN ParseOK(r.node) ELSE ParseErr("SyntaxError")

ParseLexed(lx) ==
  IF ~lx.ok THEN ParseErr(lx.exc) ELSE ParseTokens(lx.toks, PComparison(lx.toks, 1))

\* the tree of the text, or the exception ast.parse raises
Parse(s) == ParseLexed(Lex(s))

----------------------------------------------------------------------------
(* ALLOWED_BIN_OPS / ALLOWED_UNARY_OPS and the operator functions          *)

ALLOWED_BIN_OPS == {"Add", "Sub", "Mult", "Div", "FloorDiv", "Mod", "Pow"}

ALLOWED_UNARY_OPS == {"UAdd", "USub"}

max_nodes == 200

PowBaseLimit == 1000000

PowExpLimit == 10

Ok(v) == [exc |-> "", msg |-> "", val |-> v]

Exc(kind, msg) == [exc |-> kind, msg |-> msg, val |-> NoneV]

NumType(l, r) == IF l.t = "int" /\ r.t = "int" THEN "int" ELSE "float"

\* abs(v) > k, for a number v and a natural k
AbsGT(v, k) ==
  LET q == Abs(v.num) \div v.den
  IN  q > k \/ (q = k /\ Abs(v.num) % v.den > 0)

\* op.pow(l, r) on numbers
PowV(l, r) ==
  IF r.den # 1 THEN Ok(UnmodelledV)
  ELSE IF r.num >= 0
    THEN Ok(Rat(NumType(l, r), IPow(l.num, r.num), IPow(l.den, r.num)))
  ELSE IF l.num = 0 THEN Exc("ZeroDivisionError", "0.0 cannot be raised to a negative power")
  ELSE Ok(Rat("float", IPow(l.den, -r.num), IPow(l.num, -r.num)))

\* ALLOWED_BIN_OPS[op_type](left, right)
ApplyBin(o, l, r) ==
  IF l.t = "unmodelled" \/ r.t = "unmodelled" THEN Ok(UnmodelledV)
  ELSE IF ~IsNum(l) \/ ~IsNum(r) THEN Exc("TypeError", "unsupported operand type(s)")
  ELSE LET t == NumType(l, r)
           q == FloorQ(l.num * r.den, l.den * r.num)
       IN  CASE o = "Add"  -> Ok(Rat(t, l.num * r.den + r.num * l.den, l.den * r.den))
             [] o = "Sub"  -> Ok(Rat(t, l.num * r.den - r.num * l.den, l.den * r.den))
             [] o = "Mult" -> Ok(Rat(t, l.num * r.num, l.den * r.den))
             [] o = "Div"  ->
                  IF r.num = 0 THEN Exc("ZeroDivisionError", "division by zero")
                  ELSE Ok(Rat("float", l.num * r.den, l.den * r.num))
             [] o = "FloorDiv" ->
                  IF r.num = 0 THEN Exc("ZeroDivisionError", "integer division or modulo by zero")
                  ELSE Ok(Rat(t, q, 1))
             [] o = "Mod"  ->
                  IF r.num = 0 THEN Exc("ZeroDivisionError", "integer division or modulo by zero")
                  ELSE Ok(Rat(t, l.num * r.den - q * r.num * l.den, l.den * r.den))
             [] o = "Pow"  -> PowV(l, r)

\* ALLOWED_UNARY_OPS[op_type](operand)
ApplyUnary(o, v) ==
  IF v.t = "unmodelled" THEN Ok(UnmodelledV)
  ELSE IF ~IsNum(v) THEN Exc("TypeError", "bad operand type for unary operator")
  ELSE IF o = "USub" THEN Ok([v EXCEPT !.num = -v.num])
  ELSE Ok(v)

----------------------------------------------------------------------------
(* class SafeEval(ast.NodeVisitor).  A visit returns the value or the      *)
(* exception together with the evaluator's state: visited, the counter,    *)
(* and two logs of what the walk did: reached, the <<op, left, right>> of  *)
(* every BinOp whose operands have both been evaluated, and pows, the      *)
(* operand pairs op.pow has been called with.                              *)

Ret(v, st) ==
  [exc |-> "", msg |-> "", val |-> v,
   visited |-> st.visited, reached |-> st.reached, pows |-> st.pows]

Raise(kind, msg, st) ==
  [exc |-> kind, msg |-> msg, val |-> NoneV,
   visited |-> st.visited, reached |-> st.reached, pows |-> st.pows]

StateOf(r) == [visited |-> r.visited, reached |-> r.reached, pows |-> r.pows]

\* ast.iter_child_nodes(node) for the nodes that have no visit_ method
Children(node) ==
  CASE node.k = "Compare"   -> <<node.left>> \o node.ops \o node.comparators
    [] node.k = "Tuple"     -> node.elts \o <<node.ctx>>
    [] node.k = "Attribute" -> <<node.value, node.ctx>>
    [] OTHER                -> <<>>

visit_Constant(node, st) ==
  IF IsNum(node.value) THEN Ret(node.value, st)
  ELSE Raise("ValueError", "Only numbers are allowed.", st)

visit_Call(node, st) == Raise("ValueError", "Function calls are not allowed.", st)

\* what a Name would get from generic_visit were visit_Name not defined;
\* visit_Name with this body is the variant C3 is checked against
visit_Name_missing(node, st) == Ret(NoneV, [st EXCEPT !.visited = @ + 1])

visit_Name(node, st) == Raise("ValueError", "Variables are not allowed.", st)

RECURSIVE visit(_, _), visit_BinOp(_, _), visit_UnaryOp(_, _),
          generic_visit(_, _), VisitChildren(_, _, _, _)

visit_BinOp(node, st) ==
  LET l  == visit(node.left, st)
      r  == visit(node.right, StateOf(l))
      s2 == [StateOf(r) EXCEPT !.reached = @ \cup {<<node.op, l.val, r.val>>}]
      s3 == [s2 EXCEPT !.pows = @ \cup {<<l.val, r.val>>}]
      a  == ApplyBin(node.op, l.val, r.val)
  IN  IF l.exc # "" THEN l
      ELSE IF r.exc # "" THEN r
      ELSE IF node.op \notin ALLOWED_BIN_OPS
        THEN Raise("ValueError", "Operator not allowed.", s2)
      ELSE IF l.val.t = "unmodelled" \/ r.val.t = "unmodelled"
        THEN Ret(UnmodelledV, s2)
      ELSE IF node.op # "Pow"
        THEN (IF a.exc # "" THEN Raise(a.exc, a.msg, s2) ELSE Ret(a.val, s2))
      ELSE IF ~IsNum(l.val)
        THEN Raise("TypeError", "bad operand type for abs()", s2)
      ELSE IF AbsGT(l.val, PowBaseLimit)
        THEN Raise("ValueError", "Exponent too large.", s2)
      ELSE IF ~IsNum(r.val)
        THEN Raise("TypeError", "bad operand type for abs()", s2)
      ELSE IF AbsGT(r.val, PowExpLimit)
        THEN Raise("ValueError", "Exponent too large.", s2)
      ELSE IF a.exc # "" THEN Raise(a.exc, a.msg, s3)
      ELSE Ret(a.val, s3)

visit_UnaryOp(node, st) ==
  LET o == visit(node.operand, st)
      a == ApplyUnary(node.op, o.val)
  IN  IF o.exc # "" THEN o
      ELSE IF node.op \notin ALLOWED_UNARY_OPS
        THEN Raise("ValueError", "Unary operator not allowed.", StateOf(o))
      ELSE IF a.exc # "" THEN Raise(a.exc, a.msg, StateOf(o))
      ELSE Ret(a.val, StateOf(o))

\* NodeVisitor.generic_visit: visit the children cs[lo..hi] in order, stop
\* at the first exception, return None
VisitChildren(cs, lo, hi, st) ==
  LET m == (lo + hi) \div 2
      a == VisitChildren(cs, lo, m, st)
      r == visit(cs[lo], st)
  IN  IF lo > hi THEN Ret(NoneV, st)
      ELSE IF lo = hi THEN (IF r.exc # "" THEN r ELSE Ret(NoneV, StateOf(r)))
      ELSE IF a.exc # "" THEN a
      ELSE VisitChildren(cs, m + 1, hi, StateOf(a))

generic_visit(node, st) ==
  LET s1 == [st EXCEPT !.visited = @ + 1]
  IN  IF s1.visited > max_nodes
        THEN Raise("ValueError", "Expression too large.", s1)
        ELSE VisitChildren(Children(node), 1, Len(Children(node)), s1)

\* NodeVisitor.visit: dispatch on the class of the node
visit(node, st) ==
  CASE node.k = "Constant" -> visit_Constant(node, st)
    [] node.k = "BinOp"    -> visit_BinOp(node, st)
    [] node.k = "UnaryOp"  -> visit_UnaryOp(node, st)
    [] node.k = "Call"     -> visit_Call(node, st)
    [] node.k = "Name"     -> visit_Name(node, st)
    [] OTHER               -> generic_visit(node, st)

\* SafeEval(): max_nodes = 200, visited = 0
NewEvaluator == [visited |-> 0, reached |-> {}, pows |-> {}]

----------------------------------------------------------------------------
(* safe_eval: result finalization and the except clauses                   *)

RoundDigits == 12

RECURSIVE FracDigits(_, _, _)
FracDigits(r, d, n) ==
  IF n = 0 THEN <<>> ELSE <<(r * 10) \div d>> \o FracDigits((r * 10) % d, d, n - 1)

RECURSIVE RemAfter(_, _, _)
RemAfter(r, d, n) == IF n = 0 THEN r ELSE RemAfter((r * 10) % d, d, n - 1)

\* add one unit in the last place; carry is 1 when it runs off the front
RECURSIVE IncDigits(_)
IncDigits(ds) ==
  IF ds = <<>> THEN [ds |-> <<>>, carry |-> 1]
  ELSE LET n == Len(ds)
           p == IncDigits(SubSeq(ds, 1, n - 1))
       IN  IF ds[n] < 9 THEN [ds |-> [ds EXCEPT ![n] = @ + 1], carry |-> 0]
           ELSE [ds |-> Append(p.ds, 0), carry |-> p.carry]

RECURSIVE StripZeros(_)
StripZeros(ds) ==
  IF ds # <<>> /\ ds[Len(ds)] = 0 THEN StripZeros(SubSeq(ds, 1, Len(ds) - 1)) ELSE ds

\* round(result, 12) of a float: the decimal with at most 12 fractional
\* digits nearest to it, ties to even
Round12(v) ==
  LET a    == Abs(v.num)
      ip   == a \div v.den
      r0   == a % v.den
      ds   == FracDigits(r0, v.den, RoundDigits)
      rem  == RemAfter(r0, v.den, RoundDigits)
      up   == 2 * rem > v.den \/ (2 * rem = v.den /\ ds[RoundDigits] % 2 = 1)
      inc  == IncDigits(ds)
      frac == IF up THEN inc.ds ELSE ds
  IN  [t |-> "float", neg |-> v.num < 0,
       ip |-> IF up THEN ip + inc.carry ELSE ip, frac |-> StripZeros(frac)]

ValueResult(v) == [kind |-> "value", val |-> v, msg |-> ""]

NoneResult == [kind |-> "none", val |-> NoneV, msg |-> ""]

ErrorResult(msg) == [kind |-> "error", val |-> NoneV, msg |-> msg]

EscapedResult(exc) == [kind |-> "escaped", val |-> NoneV, msg |-> exc]

\* an outcome the model does not compute
UnmodelledResult == [kind |-> "unmodelled", val |-> UnmodelledV, msg |-> ""]

\* the classes `except Exception` catches
ExceptionClasses ==
  {"SyntaxError", "IndentationError", "ValueError", "TypeError", "ZeroDivisionError"}

\* the first except clause alone; Handle with this body is the variant C6
\* is checked against
Handle_zero_division_only(exc, msg) ==
  IF exc = "ZeroDivisionError" THEN ErrorResult("Division by zero")
  ELSE EscapedResult(exc)

\* except ZeroDivisionError / except Exception as e
Handle(exc, msg) ==
  IF exc = "ZeroDivisionError" THEN ErrorResult("Division by zero")
  ELSE IF exc \in ExceptionClasses THEN ErrorResult(msg)
  ELSE EscapedResult(exc)

ParseMsg(exc) == IF exc = "IndentationError" THEN "unexpected indent" ELSE "invalid syntax"

\* the value safe_eval returns after a visit that raised nothing
Finalize(v) ==
  IF v.t = "float" THEN ValueResult(Round12(v))
  ELSE IF v.t = "none" THEN NoneResult
  ELSE IF v.t = "unmodelled" THEN UnmodelledResult
  ELSE ValueResult(v)

Finish(r) == IF r.exc # "" THEN Handle(r.exc, r.msg) ELSE Finalize(r.val)

BlankCall(arg) ==
  [arg |-> arg, normalized |-> <<>>, parsed |-> FALSE, tree |-> TupleN,
   exc |-> "", visited |-> 0, reached |-> {}, pows |-> {}, result |-> NoneResult]

\* the call record when ast.parse raised
ParseFailed(c, p) ==
  [c EXCEPT !.exc = p.exc,
            !.result = IF p.exc = "Unmodelled" THEN UnmodelledResult
                       ELSE Handle(p.exc, ParseMsg(p.exc))]

\* the call record once ast.parse returned a tree
Parsed(c, p) == [c EXCEPT !.parsed = TRUE, !.tree = p.tree]

\* the call record after evaluator.visit(tree.body) ended with r
Walked(c, r) ==
  [c EXCEPT !.exc = r.exc, !.visited = r.visited, !.reached = r.reached,
            !.pows = r.pows, !.result = Finish(r)]

Normalized(c) == [c EXCEPT !.normalized = Normalize(c.arg)]

AfterParse(c, p) ==
  IF p.ok THEN Walked(Parsed(c, p), visit(p.tree, NewEvaluator)) ELSE ParseFailed(c, p)

AfterNormalize(c) == AfterParse(c, Parse(c.normalized))

\* one whole call safe_eval(arg), with what it did on the way
safe_eval(arg) == AfterNormalize(Normalized(BlankCall(arg)))

----------------------------------------------------------------------------
(* str(result)                                                             *)

RECURSIVE StrNat(_)
StrNat(n) ==
  IF n < 10 THEN <<DigitChar(n)>> ELSE Append(StrNat(n \div 10), DigitChar(n % 10))

StrInt(n) == IF n < 0 THEN <<"-">> \o StrNat(-n) ELSE StrNat(n)

DigitChars(ds) == [i \in 1..Len(ds) |-> DigitChar(ds[i])]

\* repr of a rounded float below 0.0001: d[.ddd]e-XX
StrSmall(d) ==
  LET k == CHOOSE i \in 1..Len(d.frac) :
             d.frac[i] # 0 /\ \A j \in 1..(i - 1) : d.frac[j] = 0
      m == SubSeq(d.frac, k, Len(d.frac))
  IN  (IF d.neg THEN <<"-">> ELSE <<>>) \o <<DigitChar(m[1])>>
        \o (IF Len(m) > 1 THEN <<".">> \o DigitChars(Tail(m)) ELSE <<>>)
        \o <<"e", "-">> \o (IF k < 10 THEN <<"0">> ELSE <<>>) \o StrNat(k)

\* repr of a rounded float
StrFloat(d) ==
  IF d.ip = 0 /\ Len(d.frac) > 4 /\ \A i \in 1..4 : d.frac[i] = 0 THEN StrSmall(d)
  ELSE (IF d.neg THEN <<"-">> ELSE <<>>) \o StrNat(d.ip) \o <<".">>
         \o (IF d.frac = <<>> THEN <<"0">> ELSE DigitChars(d.frac))

ErrorPrefix == <<"E", "r", "r", "o", "r", ":", " ">>

Str(res) ==
  CASE res.kind = "error" -> Append(ErrorPrefix, res.msg)
    [] res.kind = "none"  -> NoneKeyword
    [] res.kind = "value" /\ res.val.t = "int"   -> StrInt(res.val.num)
    [] res.kind = "value" /\ res.val.t = "float" -> StrFloat(res.val)
    [] OTHER -> <<"UNMODELLED">>

StartsWith(s, prefix) ==
  Len(s) >= Len(prefix) /\ SubSeq(s, 1, Len(prefix)) = prefix

----------------------------------------------------------------------------
(* The shell: session state and the handlers                               *)

HistoryCap == 15

MaxEdits == 1

MaxEvals == 16

\* every token a button appends
ButtonTokens ==
  {<<"7">>, <<"8">>, <<"9">>, <<"/">>, <<"4">>, <<"5">>, <<"6">>, <<"*">>,
   <<"1">>, <<"2">>, <<"3">>, <<"-">>, <<"(">>, <<"0">>, <<".">>, <<"+">>,
   <<")">>, <<"*", "*">>, <<"%">>, <<"DIVSIGN">>, <<"MULSIGN">>, <<"/", "/">>}

\* the tokens that are appended to a lone "0" instead of replacing it
KeepZeroTokens == {<<".">>, <<")">>, <<"*", "*">>, <<"%">>}

\* the buttons pressed in the runs explored
ShellTokens == {<<"1">>, <<"*", "*">>}

\* the texts typed into the expression box in the runs explored
TypedTexts ==
  {<<" ", "1", "/", "0", " ">>, <<"(", "1", "/", "2", ")">>, <<"1", "<", "2">>,
   <<"2", "^", "1", "0">>}

Min(a, b) == IF a < b THEN a ELSE b

\* str.strip()
strip(s) ==
  LET keep == {i \in 1..Len(s) : s[i] # " "}
      lo   == CHOOSE i \in keep : \A j \in keep : i <= j
      hi   == CHOOSE i \in keep : \A j \in keep : i >= j
  IN  IF keep = {} THEN <<>> ELSE SubSeq(s, lo, hi)

\* the insert without the cut; HistoryInsert with this body is the variant
\* C9 is checked against
HistoryInsert_uncapped(h, entry) == <<entry>> \o h

\* history.insert(0, entry); history = history[:15]
HistoryInsert(h, entry) == SubSeq(<<entry>> \o h, 1, Min(HistoryCap, Len(h) + 1))

\* f"{expr} = {result}"
HistoryEntry(e, text) == e \o <<" ", "=", " ">> \o text

\* the result text whatever it is; ExprAfter with this body is the variant
\* C10 is checked against
ExprAfter_always(old, text) == text

\* str(result) if not str(result).startswith("Error") else st.session_state.expr
ExprAfter(old, text) ==
  IF ~StartsWith(text, <<"E", "r", "r", "o", "r">>) THEN text ELSE old

NoSample == [text |-> <<>>, ref |-> [st |-> "none", v |-> 0]]

Init ==
  /\ expr = <<"0">>
  /\ history = <<>>
  /\ op = "init"
  /\ pc = "Idle"
  /\ call = BlankCall(<<>>)
  /\ sample = NoSample
  /\ edits = 0
  /\ evals = 0

append_to_expr(token) ==
  /\ edits < MaxEdits
  /\ expr' = IF expr = <<"0">> /\ token \notin KeepZeroTokens THEN token
             ELSE expr \o token
  /\ op' = "append_to_expr"
  /\ edits' = edits + 1
  /\ UNCHANGED <<history, pc, call, sample, evals>>

backspace ==
  /\ edits < MaxEdits
  /\ expr' = IF Len(expr) <= 1 THEN <<"0">> ELSE SubSeq(expr, 1, Len(expr) - 1)
  /\ op' = "backspace"
  /\ edits' = edits + 1
  /\ UNCHANGED <<history, pc, call, sample, evals>>

clear ==
  /\ edits < MaxEdits
  /\ expr' = <<"0">>
  /\ op' = "clear"
  /\ edits' = edits + 1
  /\ UNCHANGED <<history, pc, call, sample, evals>>

\* the text box bound to st.session_state.expr
text_input(text) ==
  /\ edits < MaxEdits
  /\ expr' = text
  /\ op' = "text_input"
  /\ edits' = edits + 1
  /\ UNCHANGED <<history, pc, call, sample, evals>>

\* the rest of evaluate() once safe_eval has returned c (or raised)
Evaluated(e, c, text) ==
  /\ call' = c
  /\ IF c.result.kind = "escaped"
       THEN UNCHANGED <<expr, history>>
       ELSE /\ history' = HistoryInsert(history, HistoryEntry(e, text))
            /\ expr' = ExprAfter(expr, text)

EvaluateCall(e, c) == Evaluated(e, c, Str(c.result))

evaluate ==
  /\ evals < MaxEvals
  /\ EvaluateCall(strip(expr), safe_eval(strip(expr)))
  /\ op' = "evaluate"
  /\ pc' = "Done"
  /\ evals' = evals + 1
  /\ UNCHANGED <<sample, edits>>

Next ==
  \/ \E token \in ShellTokens : append_to_expr(token)
  \/ backspace
  \/ clear
  \/ \E text \in TypedTexts : text_input(text)
  \/ evaluate

Spec == Init /\ [][Next]_vars

----------------------------------------------------------------------------
(* One call of safe_eval, step by step: normalize, parse, walk the tree.   *)
(* The call runs on a sample: a text and, for the integer expressions of   *)
(* the sample set, the value the expression has by the rules of            *)
(* arithmetic (ref), worked out from the shape the text was built from     *)
(* and not from the tree ast.parse makes of it.                            *)

MaxLit == 2

MaxNormLen == 3

RefVal(v) == [st |-> "value", v |-> v]

RefNo(st) == [st |-> st, v |-> 0]

\* the floor of x / y, y # 0: the q with q*y <= x < (q+1)*y, mirrored for y < 0
RefFloorDiv(x, y) ==
  LET t == (Abs(x) \div Abs(y)) * (IF (x < 0) = (y < 0) THEN 1 ELSE -1)
  IN  CHOOSE q \in {t - 1, t, t + 1} :
        IF y > 0 THEN q * y <= x /\ x < (q + 1) * y
                 ELSE q * y >= x /\ x > (q + 1) * y

\* l o r for two reference results; "zerodiv": a divisor is zero, "guard":
\* a power exceeds the exponent guard, "negexp": a power has a negative
\* exponent
RefBin(o, l, r) ==
  IF l.st \in {"zerodiv", "guard"} THEN l
  ELSE IF r.st \in {"zerodiv", "guard"} THEN r
  ELSE IF o \in {"//", "%"} /\ r.st = "value" /\ r.v = 0 THEN RefNo("zerodiv")
  ELSE IF l.st # "value" THEN l
  ELSE IF r.st # "value" THEN r
  ELSE CASE o = "+"  -> RefVal(l.v + r.v)
         [] o = "-"  -> RefVal(l.v - r.v)
         [] o = "*"  -> RefVal(l.v * r.v)
         [] o = "//" -> RefVal(RefFloorDiv(l.v, r.v))
         [] o = "%"  -> RefVal(l.v - r.v * RefFloorDiv(l.v, r.v))
         [] o = "**" ->
              IF Abs(l.v) > PowBaseLimit \/ Abs(r.v) > PowExpLimit THEN RefNo("guard")
              ELSE IF r.v < 0 THEN RefNo("negexp")
              ELSE RefVal(IPow(l.v, r.v))

RefNeg(r) == IF r.st = "value" THEN RefVal(-r.v) ELSE r

RefOps == {"+", "-", "*", "//", "%", "**"}

Prec(o) == IF o \in {"+", "-"} THEN 1 ELSE IF o = "**" THEN 3 ELSE 2

\* in a o1 b o2 c the right operator is applied first
RightFirst(o1, o2) == Prec(o2) > Prec(o1) \/ (o1 = "**" /\ o2 = "**")

OpText(o) ==
  CASE o = "//" -> <<"/", "/">> [] o = "**" -> <<"*", "*">> [] OTHER -> <<o>>

Lit(a) == RefVal(a)

\* a o1 b o2 c
Flat(a, o1, b, o2, c) ==
  [text |-> StrNat(a) \o OpText(o1) \o StrNat(b) \o OpText(o2) \o StrNat(c),
   ref  |-> IF RightFirst(o1, o2)
              THEN RefBin(o1, Lit(a), RefBin(o2, Lit(b), Lit(c)))
              ELSE RefBin(o2, RefBin(o1, Lit(a), Lit(b)), Lit(c))]

\* (a o1 b) o2 c
GroupLeft(a, o1, b, o2, c) ==
  [text |-> <<"(">> \o StrNat(a) \o OpText(o1) \o StrNat(b) \o <<")">>
              \o OpText(o2) \o StrNat(c),
   ref  |-> RefBin(o2, RefBin(o1, Lit(a), Lit(b)), Lit(c))]

\* a o1 (b o2 c)
GroupRight(a, o1, b, o2, c) ==
  [text |-> StrNat(a) \o OpText(o1) \o <<"(">> \o StrNat(b) \o OpText(o2)
              \o StrNat(c) \o <<")">>,
   ref  |-> RefBin(o1, Lit(a), RefBin(o2, Lit(b), Lit(c)))]

\* a o1 -b o2 c: the minus takes b ** c whole, and b alone otherwise
MinusInside(a, o1, b, o2, c) ==
  [text |-> StrNat(a) \o OpText(o1) \o <<"-">> \o StrNat(b) \o OpText(o2) \o StrNat(c),
   ref  |-> IF o2 = "**"
              THEN RefBin(o1, Lit(a), RefNeg(RefBin(o2, Lit(b), Lit(c))))
            ELSE IF RightFirst(o1, o2)
              THEN RefBin(o1, Lit(a), RefBin(o2, RefNeg(Lit(b)), Lit(c)))
              ELSE RefBin(o2, RefBin(o1, Lit(a), RefNeg(Lit(b))), Lit(c))]

\* -a o b: the minus takes a ** b whole, and a alone otherwise
MinusFirst(a, o, b) ==
  [text |-> <<"-">> \o StrNat(a) \o OpText(o) \o StrNat(b),
   ref  |-> IF o = "**" THEN RefNeg(RefBin(o, Lit(a), Lit(b)))
            ELSE RefBin(o, RefNeg(Lit(a)), Lit(b))]

Example(text, v) == [text |-> text, ref |-> RefVal(v)]

Plain(text) == [text |-> text, ref |-> RefNo("none")]

Lits == 0..MaxLit

\* the integer expressions: every shape over the literals 0..MaxLit
IntSamples ==
  UNION {{Flat(a, o1, b, o2, c), GroupLeft(a, o1, b, o2, c),
          GroupRight(a, o1, b, o2, c), MinusInside(a, o1, b, o2, c)} :
           a \in Lits, o1 \in RefOps, b \in Lits, o2 \in RefOps, c \in Lits}
    \cup {MinusFirst(a, o, b) : a \in Lits, o \in RefOps, b \in Lits}

ExampleSamples ==
  {Example(<<"2", "+", "2">>, 4), Example(<<"2", "^", "1", "0">>, 1024),
   Example(<<"7", "/", "/", "2">>, 3), Example(<<"7", "%", "2">>, 1),
   Example(<<"-", "7", "/", "/", "2">>, -4), Example(<<"-", "7", "%", "2">>, 1),
   Example(<<"7", "/", "/", "-", "2">>, -4), Example(<<"7", "%", "-", "2">>, -1),
   Example(<<"-", "2", "*", "*", "2">>, -4),
   Example(<<"2", "*", "*", "3", "*", "*", "2">>, 512)}

\* the five characters the normalizer rewrites
Rewritten == {"MULSIGN", "DIVSIGN", "ENDASH", "EMDASH", "^"}

NormAlphabet == Rewritten \cup {"*", "2"}

\* every text of at most MaxNormLen characters over NormAlphabet
NormTexts == UNION {[1..k -> NormAlphabet] : k \in 0..MaxNormLen}

RECURSIVE Rep(_, _)
Rep(s, n) == IF n = 0 THEN <<>> ELSE s \o Rep(s, n - 1)

\* (1<1<...<1) with n comparisons
Chain(n) == <<"(", "1">> \o Rep(<<"<", "1">>, n) \o <<")">>

\* ten chains compared with one another: 11 + 10 * n nodes that have no
\* visit_ method of their own
WideCompare(n) == Chain(n) \o Rep(<<"<">> \o Chain(n), 9)

\* n copies of s with sep between them
Join(s, sep, n) == s \o Rep(sep \o s, n - 1)

\* a sum of three products of three parenthesized sums of three products of
\* four ones: 108 literals and 107 binary operations, no nesting deeper
\* than one pair of parentheses
ManyNodes ==
  LET ones  == Join(<<"1">>, <<"*">>, 4)
      inner == <<"(">> \o Join(ones, <<"+">>, 3) \o <<")">>
      term  == Join(inner, <<"*">>, 3)
  IN  Join(term, <<"+">>, 3)

BigTexts == {WideCompare(18), WideCompare(19), ManyNodes}

MiscTexts ==
  {<<>>, <<" ", "1">>, <<"1", "+">>, <<"(">>, <<")", "(">>, <<"0", "7">>,
   <<"0", "0">>, <<"1", "a">>, <<"1", " ", "2">>, <<"1">>, <<"-", "1">>,
   <<"-", "-", "1">>, <<"+", "1">>, <<"1", "+", "1">>, <<"(", "1", ")">>,
   <<"1", "<", "2">>, <<"(", ")">>, <<"1", " ", ".", "a">>,
   <<"(", "1", "<", "2", ")">>, <<"1", "<", "2", "<", "3">>,
   <<"N", "o", "n", "e">>, <<"1", "<", "<", "2">>, <<"~", "1">>,
   <<"1", "+", "N", "o", "n", "e">>, <<"-", "(", "1", "<", "2", ")">>,
   <<"(", "1", "<", "2", ")", "+", "1">>, <<"x", "+", "1">>,
   <<"p", "r", "i", "n", "t", "(", "1", ")">>, <<"1", "<", "x">>,
   <<"x", ".", "a">>, <<"x">>, <<"-", "x">>,
   <<"1", "+", "x", "(", "1", ")">>, <<"(", "x", ")">>, <<"x", "(", ")">>,
   <<"1", "/", "0", "+", "x">>, <<"x", "*", "*", "2">>,
   <<"1", " ", ".", "a", "(", "1", ")">>, <<"~", "x">>,
   <<"2", "*", "*", "1", "0", "0", "0">>,
   <<"1", "0", "0", "0", "0", "0", "1", "*", "*", "2">>,
   <<"2", "*", "*", "1", "1">>, <<"2", "*", "*", "1", "0">>,
   <<"1", "0", "0", "0", "0", "0", "0", "*", "*", "1">>,
   <<"(", "1", "<", "2", ")", "*", "*", "1", "1">>,
   <<"1", "0", "0", "0", "0", "0", "1", "*", "*", "(", "1", "<", "2", ")">>,
   <<"2", "*", "*", "(", "1", "<", "2", ")">>,
   <<"2", "*", "*", "-", "1", "1">>,
   <<"-", "1", "0", "0", "0", "0", "0", "1", "*", "*", "2">>,
   <<"(", "-", "1", "0", "0", "0", "0", "0", "1", ")", "*", "*", "2">>,
   <<"2", "*", "*", "-", "1">>, <<"1", "0", "*", "*", "-", "5">>, <<"0", "*", "*", "-", "1">>,
   <<"0", "*", "*", "0">>, <<"1", "/", "0">>, <<"1", "/", "/", "0">>,
   <<"1", "%", "0">>, <<"(", "1", "<", "2", ")", "/", "0">>,
   <<"(", "1", "<", "2", ")", "/", "/", "0">>,
   <<"(", "1", "<", "2", ")", "%", "0">>, <<"0", "/", "0">>,
   <<"1", "/", "0", ".", "0">>, <<"1", ".", "5", "/", "/", "0">>,
   <<"1", "/", "(", "1", "-", "1", ")">>, <<"1", "/", "0", "+", "1">>,
   <<"7", "/", "2">>, <<"1", "/", "3">>, <<"2", "/", "3">>,
   <<"0", ".", "1", "+", "0", ".", "2">>, <<"1", ".", "5", "*", "2">>,
   <<"7", ".", "5", "/", "/", "2">>, <<"7", ".", "5", "%", "2">>,
   <<"-", "7", "/", "/", "2">>, <<"-", "7", "%", "2">>,
   <<"7", "/", "/", "-", "2">>, <<"7", "%", "-", "2">>,
   <<"1", "/", "8", "1", "9", "2">>, <<"2", "MULSIGN", "3">>,
   <<"6", "DIVSIGN", "3">>, <<"5", "ENDASH", "3">>, <<"5", "EMDASH", "3">>,
   <<"2", "^", "3", "^", "2">>, <<" ", "1", "/", "0", " ">>,
   <<"1", "/", "0", " ">>}

EvalSamples ==
  IntSamples \cup ExampleSamples
    \cup {Plain(t) : t \in NormTexts \cup BigTexts \cup MiscTexts}

InitEval ==
  /\ sample \in EvalSamples
  /\ expr = <<"0">>
  /\ history = <<>>
  /\ op = "init"
  /\ pc = "Start"
  /\ call = BlankCall(sample.text)
  /\ edits = 0
  /\ evals = 0

\* the five replace passes
NormalizeStep ==
  /\ pc = "Start"
  /\ call' = Normalized(call)
  /\ pc' = "Parsing"
  /\ op' = "normalize"
  /\ UNCHANGED <<expr, history, sample, edits, evals>>

ParseEnds(p) ==
  /\ call' = IF p.ok THEN Parsed(call, p) ELSE ParseFailed(call, p)
  /\ pc' = IF p.ok THEN "Evaluating" ELSE "Done"

\* ast.parse, and the except clauses when it raises
ParseStep ==
  /\ pc = "Parsing"
  /\ ParseEnds(Parse(call.normalized))
  /\ op' = "parse"
  /\ UNCHANGED <<expr, history, sample, edits, evals>>

\* evaluator.visit(tree.body), the rounding and the except clauses
EvalStep ==
  /\ pc = "Evaluating"
  /\ call' = Walked(call, visit(call.tree, NewEvaluator))
  /\ pc' = "Done"
  /\ op' = "visit"
  /\ UNCHANGED <<expr, history, sample, edits, evals>>

NextEval == NormalizeStep \/ ParseStep \/ EvalStep

SpecEval == InitEval /\ [][NextEval]_vars

\* the control flow of safe_eval: straight-line code, each statement of
\* which returns
Advance ==
  \/ pc = "Start" /\ pc' = "Parsing"
  \/ pc = "Parsing" /\ pc' \in {"Evaluating", "Done"}
  \/ pc = "Evaluating" /\ pc' = "Done"

\* a call that has not returned goes on: nothing in safe_eval waits
FairSpecEval == SpecEval /\ WF_pc(Advance)

\* no state of the model holds an outcome the model does not compute
DomainOK ==
  /\ call.result.kind # "unmodelled"
  /\ Str(call.result) # <<"UNMODELLED">>
  /\ "UNMODELLED" \notin {expr[i] : i \in 1..Len(expr)}

----------------------------------------------------------------------------
(* Properties.  Those about one safe_eval call are stated on the call      *)
(* record of SpecEval, those about the shell on the steps of Spec.         *)

\* the nodes directly below a node
SubNodes(node) ==
  CASE node.k = "BinOp"   -> <<node.left, node.right>>
    [] node.k = "UnaryOp" -> <<node.operand>>
    [] node.k = "Call"    -> <<node.func>> \o node.args
    [] OTHER              -> Children(node)

RECURSIVE NodeCount(_), NodeCountRange(_, _, _)

NodeCountRange(cs, lo, hi) ==
  IF lo > hi THEN 0
  ELSE IF lo = hi THEN NodeCount(cs[lo])
  ELSE NodeCountRange(cs, lo, (lo + hi) \div 2)
         + NodeCountRange(cs, (lo + hi) \div 2 + 1, hi)

\* the number of nodes of a tree
NodeCount(node) == 1 + NodeCountRange(SubNodes(node), 1, Len(SubNodes(node)))

\* "ok" for a numeric literal, a unary + or - and the seven binary
\* operators, and the class of the node for anything else
Label(node) ==
  IF \/ node.k = "Constant" /\ IsNum(node.value)
     \/ node.k = "UnaryOp" /\ node.op \in {"UAdd", "USub"}
     \/ node.k = "BinOp"
          /\ node.op \in {"Add", "Sub", "Mult", "Div", "FloorDiv", "Mod", "Pow"}
    THEN "ok"
    ELSE node.k

RECURSIVE Labels(_), LabelsRange(_, _, _)

LabelsRange(cs, lo, hi) ==
  IF lo > hi THEN {}
  ELSE IF lo = hi THEN Labels(cs[lo])
  ELSE LabelsRange(cs, lo, (lo + hi) \div 2)
         \cup LabelsRange(cs, (lo + hi) \div 2 + 1, hi)

\* the labels of all the nodes of a tree
Labels(node) == {Label(node)} \cup LabelsRange(SubNodes(node), 1, Len(SubNodes(node)))

ErrorWord == <<"E", "r", "r", "o", "r">>

\* C1: when a call ends without a failure the counter equals the number of
\* nodes of the tree that was walked, and a tree of more than max_nodes
\* nodes never gives a value.
C1_Budget ==
  (pc = "Done" /\ call.parsed) =>
    /\ call.exc = "" => call.visited = NodeCount(call.tree)
    /\ NodeCount(call.tree) > max_nodes => call.result.kind = "error"

\* a tree of more than max_nodes literals and binary operations walked to a
\* value with the counter still at 0
C1_Witness ==
  /\ pc = "Done"
  /\ call.arg = ManyNodes
  /\ NodeCount(call.tree) > max_nodes
  /\ call.visited = 0
  /\ call.result = ValueResult(IntV(81))

\* C2: a tree with a node other than a numeric literal, a unary + or - or
\* one of the seven binary operators ends in an error, never in a value and
\* never in None.
C2_DisallowedRejected ==
  (pc = "Done" /\ call.parsed /\ Labels(call.tree) # {"ok"}) =>
    call.result.kind = "error"

\* a comparison evaluated to None
C2_Witness ==
  /\ pc = "Done"
  /\ call.arg = <<"1", "<", "2">>
  /\ "Compare" \in Labels(call.tree)
  /\ call.result = NoneResult

\* C3: a tree with a Name or a Call anywhere in it ends in an error.
C3_NamesRejected ==
  (pc = "Done" /\ call.parsed /\ Labels(call.tree) \cap {"Name", "Call"} # {}) =>
    call.result.kind = "error" /\ StartsWith(Str(call.result), ErrorWord)

\* a Name below a node that has no visit_ method, rejected
C3_Witness ==
  /\ pc = "Done"
  /\ call.arg = <<"1", "<", "x">>
  /\ {"Name", "Compare"} \subseteq Labels(call.tree)
  /\ call.result = ErrorResult("Variables are not allowed.")

\* one of the operands of a ** is a number beyond the guard
Exceeds(l, r) ==
  \/ IsNum(l) /\ AbsGT(l, PowBaseLimit)
  \/ IsNum(r) /\ AbsGT(r, PowExpLimit)

\* C4: a ** whose operands were both evaluated and one of which is beyond
\* the guard ends the call with 'Exponent too large.', and every power that
\* was computed had both operands within the guard.
C4_PowGuard ==
  pc = "Done" =>
    /\ \A p \in call.reached :
         (p[1] = "Pow" /\ Exceeds(p[2], p[3])) =>
           call.result = ErrorResult("Exponent too large.")
    /\ \A q \in call.pows :
         IsNum(q[1]) /\ IsNum(q[2]) /\ ~Exceeds(q[1], q[2])

\* a ** with the exponent 11 and the value of a comparison as the base,
\* ended by the TypeError of abs()
C4_Witness ==
  /\ pc = "Done"
  /\ <<"Pow", NoneV, IntV(11)>> \in call.reached
  /\ call.result = ErrorResult("bad operand type for abs()")

\* C5: a /, // or % whose operands were both evaluated and whose right
\* operand is zero ends the call with 'Division by zero'.
C5_ZeroDivisor ==
  pc = "Done" =>
    \A p \in call.reached :
      (p[1] \in {"Div", "FloorDiv", "Mod"} /\ IsNum(p[3]) /\ p[3].num = 0) =>
        call.result = ErrorResult("Division by zero")

\* a / with the divisor 0 and the value of a comparison as the dividend,
\* ended by the TypeError of the division
C5_Witness ==
  /\ pc = "Done"
  /\ <<"Div", NoneV, IntV(0)>> \in call.reached
  /\ call.result = ErrorResult("unsupported operand type(s)")

\* C6: no exception leaves safe_eval, every exception raised while parsing
\* or walking becomes a returned text that starts with Error, and every
\* call ends.
C6_NoEscape ==
  /\ [](pc = "Done" =>
          /\ call.result.kind # "escaped"
          /\ call.exc # "" =>
               call.result.kind = "error" /\ StartsWith(Str(call.result), ErrorWord))
  /\ <>(pc = "Done")

\* a TypeError raised in the walk, returned as an error text
C6_Witness ==
  /\ pc = "Done"
  /\ call.parsed
  /\ call.exc = "TypeError"
  /\ call.result.kind = "error"
  /\ StartsWith(Str(call.result), ErrorWord)

\* C7: an integer expression in which no divisor is zero, no power exceeds
\* the guard and no power has a negative exponent evaluates to its value
\* under the standard precedence and associativity, with floor division
\* and floor modulo.
C7_Value ==
  (pc = "Done" /\ sample.ref.st = "value") =>
    call.result = ValueResult(IntV(sample.ref.v))

\* C7 as stated, without the condition on negative exponents: such an
\* expression always evaluates to a value, the reference value when that is
\* an integer.
C7_AsStated ==
  (pc = "Done" /\ sample.ref.st \in {"value", "negexp"}) =>
    /\ call.result.kind = "value"
    /\ sample.ref.st = "value" => call.result.val = IntV(sample.ref.v)

\* 2--1//2 is 2 - ((-1) // 2) = 2 - (-1) = 3: // before the binary -, the
\* inner minus on the 1 alone, the quotient floored
C7_Witness ==
  /\ pc = "Done"
  /\ sample = MinusInside(2, "-", 1, "//", 2)
  /\ sample.ref = RefVal(3)
  /\ call.result = ValueResult(IntV(3))

Subst(c) ==
  CASE c = "MULSIGN" -> <<"*">> [] c = "DIVSIGN" -> <<"/">>
    [] c = "ENDASH" -> <<"-">> [] c = "EMDASH" -> <<"-">>
    [] c = "^" -> <<"*", "*">> [] OTHER -> <<c>>

\* s[lo..hi] with each character replaced by Subst of it
RECURSIVE SubstRange(_, _, _)
SubstRange(s, lo, hi) ==
  IF lo > hi THEN <<>>
  ELSE IF lo = hi THEN Subst(s[lo])
  ELSE SubstRange(s, lo, (lo + hi) \div 2) \o SubstRange(s, (lo + hi) \div 2 + 1, hi)

\* C8: normalizing the normalized text changes nothing, the normalized
\* text has none of the five rewritten characters, and it is the argument
\* with each of those characters replaced in place and every other
\* character kept.
C8_Normalize ==
  pc \in {"Parsing", "Evaluating", "Done"} =>
    /\ Normalize(call.normalized) = call.normalized
    /\ \A i \in 1..Len(call.normalized) : call.normalized[i] \notin Rewritten
    /\ call.normalized = SubstRange(call.arg, 1, Len(call.arg))

\* a text with a rewritten character on each side of one that is kept
C8_Witness ==
  /\ pc = "Parsing"
  /\ call.arg = <<"^", "2", "EMDASH">>
  /\ call.normalized = <<"*", "*", "2", "-">>

\* what a step of the shell does to the history
HistoryStep ==
  IF op' = "evaluate" /\ evals' = evals + 1
    THEN /\ Len(history') = Min(HistoryCap, Len(history) + 1)
         /\ history'[1] = strip(expr) \o <<" ", "=", " ">> \o Str(call'.result)
         /\ \A i \in 2..Len(history') : history'[i] = history[i - 1]
    ELSE history' = history

\* C9: the history never holds more than HistoryCap entries; evaluate puts
\* one entry, the evaluated text and the result, in front of the others,
\* which keep their order and of which only the oldest are dropped; no
\* other step changes the history.
C9_History == [](Len(history) <= HistoryCap) /\ [][HistoryStep]_vars

\* a full history that has dropped its oldest entry and whose newest entry
\* differs from its oldest
C9_Witness ==
  /\ op = "evaluate"
  /\ evals > HistoryCap
  /\ Len(history) = HistoryCap
  /\ history[1] # history[HistoryCap]

\* what evaluate does to the expression text
EvaluateStep ==
  (op' = "evaluate" /\ evals' = evals + 1) =>
    IF call'.result.kind = "error"
      THEN /\ expr' = expr
           /\ StartsWith(Str(call'.result), ErrorWord)
           /\ history'[1] = strip(expr) \o <<" ", "=", " ">> \o Str(call'.result)
      ELSE expr' = Str(call'.result)

\* C10: when safe_eval returns an error, evaluate leaves the expression
\* text as it was and records the error text in the history; otherwise the
\* expression text becomes the rendered result.
C10_ErrorKeepsExpr == [][EvaluateStep]_vars

\* an evaluate that got an error for a text with blanks around it and left
\* the text, blanks included, in place
C10_Witness ==
  /\ op = "evaluate"
  /\ call.result = ErrorResult("Division by zero")
  /\ expr = <<" ", "1", "/", "0", " ">>
  /\ history[1] = <<"1", "/", "0", " ", "=", " ">> \o ErrorPrefix \o <<"Division by zero">>

====
